---- MODULE Spec2Model ----
(***************************************************************************)
(* Model of VTS (src/vision_to_speech.py): the image -> text -> speech     *)
(* pipeline of VisionAid.  One pipeline object, one caller thread.  Every  *)
(* blocking call of convert (filesystem, vision service, TTS submission,   *)
(* sleep, poll fetch) is one step; the answers of the outside world are    *)
(* chosen nondeterministically from small sets.                            *)
(*                                                                         *)
(* Python values:  a str / bytes value is a tuple of characters / bytes,   *)
(* an Optional value is the empty tuple (None) or a one-element tuple      *)
(* (Some), a dict is a record.                                             *)
(***************************************************************************)
EXTENDS Integers, Sequences, FiniteSets, TLC

VARIABLES
    \* configuration held by the pipeline object
    voice, prompt, model, fpt_api_key,
    \* filesystem under the output paths
    files, dirs,
    \* position of the caller inside convert
    pc,
    \* arguments of the running convert
    image_path, output_wav_path, wait_time,
    \* locals of the running convert
    text_result, audio_url, attempt, retry_delay, audio_response,
    \* what convert handed back to its caller
    result,
    \* observations of the running convert (history)
    log, sleeps, polls, visionArgs, visionResp, postReq, ttsResp, raised,
    filesBefore, dirsBefore,
    \* observations of the setters (history)
    lastSetVoice, lastSetPrompt

cfg    == <<voice, prompt, model, fpt_api_key>>
fs     == <<files, dirs>>
args   == <<image_path, output_wav_path, wait_time>>
locals == <<text_result, audio_url, attempt, retry_delay, audio_response>>
net    == <<visionArgs, visionResp, postReq, ttsResp>>
before == <<filesBefore, dirsBefore>>
setlog == <<lastSetVoice, lastSetPrompt>>
vars   == <<cfg, fs, pc, args, locals, result, log, sleeps, polls, net,
            raised, before, setlog>>

None      == <<>>
Some(x)   == <<x>>

----------------------------------------------------------------------------
(* Bounds and input sets *)

MaxTextLen == 2

max_retries == 3
RetryStep == 5
DefaultWaitTime == 15

Chars == {" ", "e"}

RECURSIVE SeqsUpTo(_, _)
SeqsUpTo(S, n) ==
    IF n = 0 THEN {<<>>}
    ELSE LET R == SeqsUpTo(S, n - 1)
         IN  R \cup {Append(s, c) : s \in {r \in R : Len(r) = n - 1}, c \in S}

\* response.text of the vision service: None or a string
VisionTexts == {None} \cup {Some(t) : t \in SeqsUpTo(Chars, MaxTextLen)}

DefaultVoice  == "banmai"
DefaultPrompt == "default"
Voices  == {DefaultVoice, "lannhi"}
Prompts == {DefaultPrompt, "custom"}

ImagePaths     == {<<"i">>, <<"m">>}
ExistingImages == {<<"i">>}
OutPaths       == {<<"o">>, <<"d", "/", "o">>}
WaitTimes      == {-1, DefaultWaitTime}

HttpUrl  == <<"h", "t", "t", "p", ":", "/", "/", "a">>
FtpUrl   == <<"f", "t", "p", ":", "/", "/", "a">>
Urls     == {HttpUrl, FtpUrl, <<>>}

\* bodies of the TTS submission response, by what .json() makes of them
InvalidBody   == [kind |-> "invalid", keys |-> {}, isStr |-> FALSE, async |-> <<>>]
NullBody      == [kind |-> "null", keys |-> {}, isStr |-> FALSE, async |-> <<>>]
ObjBody(k, s, u) == [kind |-> "object", keys |-> k, isStr |-> s, async |-> u]
TtsBodies ==
    {InvalidBody, NullBody, ObjBody({}, FALSE, <<>>),
     ObjBody({"error", "message"}, FALSE, <<>>),
     ObjBody({"async", "error"}, FALSE, <<>>)}
    \cup {ObjBody({"async"}, TRUE, u) : u \in Urls}
TtsStatuses == {200, 401, 500}
TtsResponses ==
    {[status_code |-> 200, body |-> b] : b \in TtsBodies}
    \cup {[status_code |-> s, body |-> b] :
            s \in TtsStatuses \ {200},
            b \in {InvalidBody, ObjBody({"async"}, TRUE, HttpUrl)}}

Contents     == {<<82>>, <<73, 70>>}
PollStatuses == {200, 404, 500}
PollResponses == [status_code : PollStatuses, content : Contents]

ExceptionClasses ==
    {"OSError", "APIError", "AttributeError", "ConnectionError",
     "JSONDecodeError", "TypeError", "ValueError"}
Exc(c, m) == [cls |-> c, msg |-> m]

----------------------------------------------------------------------------
(* Pure functions *)

\* str.strip(): drop leading and trailing whitespace
RECURSIVE LStrip(_)
LStrip(s) == IF s # <<>> /\ s[1] = " " THEN LStrip(Tail(s)) ELSE s
RECURSIVE RStrip(_)
RStrip(s) ==
    IF s # <<>> /\ s[Len(s)] = " " THEN RStrip(SubSeq(s, 1, Len(s) - 1)) ELSE s
Strip(s) == RStrip(LStrip(s))

\* str.encode("utf-8")
Utf8Char(c) == IF c = " " THEN <<32>> ELSE <<195, 169>>
RECURSIVE Utf8(_)
Utf8(s) == IF s = <<>> THEN <<>> ELSE Utf8Char(s[1]) \o Utf8(Tail(s))

\* str.startswith
StartsWith(s, pre) == Len(s) >= Len(pre) /\ SubSeq(s, 1, Len(pre)) = pre

\* os.path.dirname (posix)
RFind(p, c) ==
    LET S == {i \in 1..Len(p) : p[i] = c}
    IN  IF S = {} THEN 0 ELSE CHOOSE i \in S : \A j \in S : j <= i
AllSep(s) == \A i \in 1..Len(s) : s[i] = "/"
RECURSIVE RStripSep(_)
RStripSep(s) ==
    IF s # <<>> /\ s[Len(s)] = "/" THEN RStripSep(SubSeq(s, 1, Len(s) - 1))
    ELSE s
dirname(p) ==
    LET head == SubSeq(p, 1, RFind(p, "/"))
    IN  IF head # <<>> /\ ~AllSep(head) THEN RStripSep(head) ELSE head

\* os.makedirs(d, exist_ok=True): d and every missing ancestor
RECURSIVE MadeDirs(_)
MadeDirs(d) ==
    IF d = <<>> \/ dirname(d) = d THEN {d} \ {<<>>}
    ELSE {d} \cup MadeDirs(dirname(d))

----------------------------------------------------------------------------
(* Result records of convert *)

GeminiModel == "gemini-2.5-flash"
TtsUrl      == "https://api.fpt.ai/hmi/tts/v5"

NotFoundResult(path) ==
    [success |-> FALSE,
     error |-> Some([msg |-> "Image file not found", detail |-> path]),
     text_result |-> None, audio_path |-> None]

TtsFailedResult(status, text) ==
    [success |-> FALSE,
     error |-> Some([msg |-> "TTS API request failed", detail |-> status]),
     text_result |-> text, audio_path |-> None]

NoAudioUrlResult(text, res_json) ==
    [success |-> FALSE,
     error |-> Some([msg |-> "No audio URL in TTS response", detail |-> <<>>]),
     text_result |-> text, audio_path |-> None, api_response |-> res_json]

InvalidUrlResult(url, text) ==
    [success |-> FALSE,
     error |-> Some([msg |-> "Invalid audio URL format", detail |-> url]),
     text_result |-> text, audio_path |-> None]

DownloadFailedResult(status, text, url) ==
    [success |-> FALSE,
     error |-> Some([msg |-> "Failed to download audio",
                     detail |-> [attempts |-> max_retries,
                                 last_status |-> status]]),
     text_result |-> text, audio_path |-> None, audio_url |-> Some(url)]

SuccessResult(text, out, url, v) ==
    [success |-> TRUE, error |-> None, text_result |-> text,
     audio_path |-> Some(out), audio_url |-> Some(url), voice_used |-> v]

\* variant: the handler starts the analysis again
ExceptHandler_Retry(e) == [pc |-> "vision", result |-> None]

\* variant: the handler lets the exception through
ExceptHandler_Reraise(e) == [pc |-> "raised", result |-> None]

\* except Exception as e: the failure boundary of convert
ExceptHandler(e) ==
    IF e.cls \in ExceptionClasses
    THEN [pc |-> "done",
          result |-> Some([success |-> FALSE,
                           error |-> Some([msg |-> "Unexpected error",
                                           detail |-> e.msg]),
                           text_result |-> None, audio_path |-> None])]
    ELSE [pc |-> "raised", result |-> None]

----------------------------------------------------------------------------
(* Decisions of convert *)

\* variant: the existence check is skipped
ImageMissing_Never(path) == FALSE

ImageMissing(path) == path \notin ExistingImages

\* variant: the headers carry the default voice
Headers_DefaultVoice(key, v) ==
    [api_key |-> key, speed |-> "", voice |-> DefaultVoice]

Headers(key, v) == [api_key |-> key, speed |-> "", voice |-> v]

\* variant: the async check is skipped
HasAsync_Always(res_json) == TRUE

HasAsync(res_json) == "async" \in res_json.keys

\* variant: only server errors count as a failed submission
TtsFailed_ServerOnly(status) == status >= 500

\* if tts_response.status_code != 200
TtsFailed(status) == status # 200

\* variant: the URL is not validated
ValidUrl_Always(url) == TRUE

\* audio_url.startswith("http")
ValidUrl(url) == StartsWith(url, <<"h", "t", "t", "p">>)

\* variant: every answer below 500 is taken as the audio
IsReady_Below500(status) == status < 500

\* if audio_response.status_code == 200
IsReady(status) == status = 200

\* variant: every answer other than 200 is retried
NotReady_AnyError(status) == status # 200

\* elif audio_response.status_code == 404
NotReady(status) == status = 404

\* variant: the loop runs one attempt short
InRange_Short(a) == a < max_retries - 1

\* for attempt in range(max_retries)
InRange(a) == a < max_retries

\* variant: the retry test is off by one
MoreRetries_OffByOne(a) == a < max_retries

MoreRetries(a) == a < max_retries - 1

\* variant: the wait doubles at every retry
NextDelay_Doubling(d) == d * 2

\* variant: the wait is not increased
NextDelay_Fixed(d) == d

NextDelay(d) == d + RetryStep

\* variant: the directory is never created
NeedsMakedirs_Never(output_dir) == FALSE

NeedsMakedirs(output_dir) == output_dir # <<>>

\* variant: the file is opened in append mode
OpenedContent_Append(old) == IF old = None THEN <<>> ELSE old[1]

\* open(path, "wb") truncates; f.write appends at the file position
OpenedContent(old) == <<>>
Written(current, bytes) == current \o bytes

\* variant: the first response is saved instead of the last
SavedResponse_First(last, all) == all[1]

\* the response whose content is saved
SavedResponse(last, all) == last

----------------------------------------------------------------------------
(* State machine *)

Init ==
    /\ voice = DefaultVoice
    /\ prompt = DefaultPrompt
    /\ model = GeminiModel
    /\ fpt_api_key = "FPT_KEY"
    /\ files = [p \in OutPaths |-> None]
    /\ dirs = {}
    /\ pc = "idle"
    /\ image_path = <<>> /\ output_wav_path = <<>> /\ wait_time = 0
    /\ text_result = None /\ audio_url = None
    /\ attempt = 0 /\ retry_delay = 0 /\ audio_response = None
    /\ result = None
    /\ log = <<>> /\ sleeps = <<>> /\ polls = <<>>
    /\ visionArgs = None /\ visionResp = None
    /\ postReq = None /\ ttsResp = None
    /\ raised = None
    /\ filesBefore = files /\ dirsBefore = dirs
    /\ lastSetVoice = None /\ lastSetPrompt = None

Finish(r) == pc' = "done" /\ result' = Some(r) /\ raised' = raised

Raise(e) ==
    /\ raised' = Some(e)
    /\ pc' = ExceptHandler(e).pc
    /\ result' = ExceptHandler(e).result

Goto(l) == pc' = l /\ result' = result /\ raised' = raised

\* variant: changing the voice puts the default prompt back
set_voice_ResetsPrompt(v) ==
    /\ pc = "idle"
    /\ voice' = v
    /\ prompt' = DefaultPrompt
    /\ lastSetVoice' = Some(v)
    /\ UNCHANGED <<model, fpt_api_key, fs, pc, args, locals, result,
                   log, sleeps, polls, net, raised, before, lastSetPrompt>>

set_voice(v) ==
    /\ pc = "idle"
    /\ voice' = v
    /\ lastSetVoice' = Some(v)
    /\ UNCHANGED <<prompt, model, fpt_api_key, fs, pc, args, locals, result,
                   log, sleeps, polls, net, raised, before, lastSetPrompt>>

set_prompt(p) ==
    /\ pc = "idle"
    /\ prompt' = p
    /\ lastSetPrompt' = Some(p)
    /\ UNCHANGED <<voice, model, fpt_api_key, fs, pc, args, locals, result,
                   log, sleeps, polls, net, raised, before, lastSetVoice>>

\* the call of convert and its os.path.exists check
ConvertEnter(ip, op, wt) ==
    /\ pc = "idle"
    /\ image_path' = ip /\ output_wav_path' = op /\ wait_time' = wt
    /\ log' = <<"exists">>
    /\ IF ImageMissing(ip) THEN Finish(NotFoundResult(ip)) ELSE Goto("read")
    /\ UNCHANGED <<cfg, fs, locals, sleeps, polls, net, before, setlog>>

\* with open(image_path, "rb") as f: image_bytes = f.read()
ReadImage ==
    /\ pc = "read"
    /\ log' = Append(log, "read")
    /\ \/ Raise(Exc("OSError", "read"))
       \/ Goto("vision")
    /\ UNCHANGED <<cfg, fs, args, locals, sleeps, polls, net, before, setlog>>

\* generate_content(...) and response.text.strip()
VisionCall ==
    /\ pc = "vision"
    /\ log' = Append(log, "vision")
    /\ visionArgs' = Some([model |-> model, prompt |-> prompt])
    /\ \/ /\ Raise(Exc("APIError", "vision"))
          /\ UNCHANGED <<visionResp, text_result>>
       \/ \E t \in VisionTexts :
            /\ visionResp' = Some(t)
            /\ IF t = None
               THEN Raise(Exc("AttributeError", "strip"))
                    /\ UNCHANGED text_result
               ELSE Goto("post") /\ text_result' = Some(Strip(t[1]))
    /\ UNCHANGED <<cfg, fs, args, audio_url, attempt, retry_delay,
                   audio_response, sleeps, polls, postReq, ttsResp, before,
                   setlog>>

\* requests.post(...), the status check, .json(), the async and URL checks
TtsPost ==
    /\ pc = "post"
    /\ postReq' = Some([url |-> TtsUrl, data |-> Utf8(text_result[1]),
                        headers |-> Headers(fpt_api_key, voice)])
    /\ \/ /\ Raise(Exc("ConnectionError", "post"))
          /\ log' = Append(log, "post")
          /\ UNCHANGED <<ttsResp, audio_url, retry_delay>>
       \/ \E r \in TtsResponses :
            /\ ttsResp' = Some(r)
            /\ IF TtsFailed(r.status_code)
               THEN /\ Finish(TtsFailedResult(r.status_code, text_result))
                    /\ log' = Append(log, "post")
                    /\ UNCHANGED <<audio_url, retry_delay>>
               ELSE /\ log' = log \o <<"post", "json">>
                    /\ IF r.body.kind = "invalid"
                       THEN /\ Raise(Exc("JSONDecodeError", "json"))
                            /\ UNCHANGED <<audio_url, retry_delay>>
                       ELSE IF r.body.kind = "null"
                       THEN /\ Raise(Exc("TypeError", "in"))
                            /\ UNCHANGED <<audio_url, retry_delay>>
                       ELSE IF ~HasAsync(r.body)
                       THEN /\ Finish(NoAudioUrlResult(text_result, r.body))
                            /\ UNCHANGED <<audio_url, retry_delay>>
                       ELSE IF ~r.body.isStr
                       THEN /\ Raise(Exc("AttributeError", "startswith"))
                            /\ UNCHANGED <<audio_url, retry_delay>>
                       ELSE IF ~ValidUrl(r.body.async)
                       THEN /\ Finish(InvalidUrlResult(r.body.async,
                                                       text_result))
                            /\ audio_url' = Some(r.body.async)
                            /\ UNCHANGED retry_delay
                       ELSE /\ Goto("sleep")
                            /\ audio_url' = Some(r.body.async)
                            /\ retry_delay' = wait_time
    /\ UNCHANGED <<cfg, fs, args, text_result, attempt, audio_response,
                   sleeps, polls, visionArgs, visionResp, before, setlog>>

\* time.sleep(retry_delay)
Sleep ==
    /\ pc = "sleep"
    /\ log' = Append(log, "sleep")
    /\ sleeps' = Append(sleeps, retry_delay)
    /\ IF retry_delay < 0
       THEN Raise(Exc("ValueError", "sleep"))
       ELSE Goto("get")
    /\ UNCHANGED <<cfg, fs, args, locals, polls, net, before, setlog>>

\* requests.get(audio_url) and the branch on its status
Get ==
    /\ pc = "get"
    /\ log' = Append(log, "get")
    /\ \/ /\ Raise(Exc("ConnectionError", "get"))
          /\ UNCHANGED <<polls, audio_response, attempt, retry_delay>>
       \/ \E r \in PollResponses :
            /\ polls' = Append(polls, r)
            /\ audio_response' = Some(r)
            /\ IF IsReady(r.status_code)
               THEN /\ Goto("mkdir")
                    /\ UNCHANGED <<attempt, retry_delay>>
               ELSE IF NotReady(r.status_code) /\ MoreRetries(attempt)
               THEN /\ retry_delay' = NextDelay(retry_delay)
                    /\ attempt' = attempt + 1
                    /\ Goto(IF InRange(attempt + 1)
                            THEN "sleep" ELSE "mkdir")
               ELSE /\ Finish(DownloadFailedResult(r.status_code, text_result,
                                                   audio_url[1]))
                    /\ UNCHANGED <<attempt, retry_delay>>
    /\ UNCHANGED <<cfg, fs, args, text_result, audio_url, sleeps, net, before,
                   setlog>>

\* output_dir = os.path.dirname(...); os.makedirs(output_dir, exist_ok=True)
Mkdir ==
    /\ pc = "mkdir"
    /\ LET output_dir == dirname(output_wav_path)
       IN  IF NeedsMakedirs(output_dir)
           THEN /\ log' = Append(log, "makedirs")
                /\ \/ Raise(Exc("OSError", "makedirs")) /\ UNCHANGED dirs
                   \/ /\ output_dir # <<>>
                      /\ dirs' = dirs \cup MadeDirs(output_dir)
                      /\ Goto("open")
           ELSE Goto("open") /\ UNCHANGED <<log, dirs>>
    /\ UNCHANGED <<cfg, files, args, locals, sleeps, polls, net, before,
                   setlog>>

\* open(output_wav_path, "wb")
OpenFile ==
    /\ pc = "open"
    /\ log' = Append(log, "open")
    /\ \/ Raise(Exc("OSError", "open")) /\ UNCHANGED files
       \/ /\ dirname(output_wav_path) \in dirs \cup {<<>>}
          /\ files' = [files EXCEPT ![output_wav_path] =
                         Some(OpenedContent(files[output_wav_path]))]
          /\ Goto("write")
    /\ UNCHANGED <<cfg, dirs, args, locals, sleeps, polls, net, before,
                   setlog>>

\* f.write(audio_response.content) and the success return
WriteFile ==
    /\ pc = "write"
    /\ log' = Append(log, "write")
    /\ \/ Raise(Exc("OSError", "write")) /\ UNCHANGED files
       \/ /\ files' = [files EXCEPT ![output_wav_path] =
                         Some(Written(files[output_wav_path][1],
                                 SavedResponse(audio_response[1],
                                               polls).content))]
          /\ Finish(SuccessResult(text_result, output_wav_path, audio_url[1],
                                  voice))
    /\ UNCHANGED <<cfg, dirs, args, locals, sleeps, polls, net, before,
                   setlog>>

\* the caller takes the result; the pipeline object is ready for the next run
Return ==
    /\ pc = "done"
    /\ pc' = "idle"
    /\ image_path' = <<>> /\ output_wav_path' = <<>> /\ wait_time' = 0
    /\ text_result' = None /\ audio_url' = None
    /\ attempt' = 0 /\ retry_delay' = 0 /\ audio_response' = None
    /\ result' = None
    /\ log' = <<>> /\ sleeps' = <<>> /\ polls' = <<>>
    /\ visionArgs' = None /\ visionResp' = None
    /\ postReq' = None /\ ttsResp' = None
    /\ raised' = None
    /\ filesBefore' = files /\ dirsBefore' = dirs
    /\ UNCHANGED <<cfg, fs, setlog>>

Next ==
    \/ \E v \in Voices : set_voice(v)
    \/ \E p \in Prompts : set_prompt(p)
    \/ \E ip \in ImagePaths, op \in OutPaths, wt \in WaitTimes :
          ConvertEnter(ip, op, wt)
    \/ ReadImage
    \/ VisionCall
    \/ TtsPost
    \/ Sleep
    \/ Get
    \/ Mkdir
    \/ OpenFile
    \/ WriteFile
    \/ Return

Spec == Init /\ [][Next]_vars

\* the steps of a running convert: the single caller thread is blocked in
\* convert, and each call it makes returns or raises
ConvertStep ==
    \/ ReadImage
    \/ VisionCall
    \/ TtsPost
    \/ Sleep
    \/ Get
    \/ Mkdir
    \/ OpenFile
    \/ WriteFile

FairSpec == Init /\ [][Next]_vars /\ WF_vars(ConvertStep)

----------------------------------------------------------------------------
(* Reading the observations of a run *)

R == result[1]
Returned == pc = "done"
Last(s) == s[Len(s)]
Positions(op) == {i \in 1..Len(log) : log[i] = op}
Calls(op) == Cardinality(Positions(op))
Statuses == [i \in 1..Len(polls) |-> polls[i].status_code]
RECURSIVE Sum(_)
Sum(s) == IF s = <<>> THEN 0 ELSE s[1] + Sum(Tail(s))
GotAudio == polls # <<>> /\ Last(polls).status_code = 200
HasDirComponent(path) == \E i \in 1..Len(path) : path[i] = "/"

----------------------------------------------------------------------------
(* C1: in every failed run, the analysis text obtained before the failure *)
(* is returned as text_result of the failure result, never None.          *)
C1_PartialResultReturned ==
    (Returned /\ ~R.success /\ text_result # None)
        => R.text_result = text_result

(* C2: for an image path that does not exist, convert returns success=false *)
(* with the "not found" error and makes no vision call, no TTS submission,  *)
(* no poll fetch, no sleep and no file write.                               *)
C2_NotFoundShortCircuits ==
    (pc # "idle" /\ image_path \notin ExistingImages)
        => /\ Returned
           /\ ~R.success
           /\ R.error # None /\ R.error[1].msg = "Image file not found"
           /\ R.error[1].detail = image_path
           /\ log = <<"exists">>
           /\ visionArgs = None /\ postReq = None
           /\ polls = <<>> /\ sleeps = <<>>
           /\ files = filesBefore /\ dirs = dirsBefore

C2_Witness ==
    /\ Returned /\ image_path = <<"m">>
    /\ ~R.success /\ R.error[1].msg = "Image file not found"

(* C3: every fetch is preceded by a sleep, the k-th sleep lasts            *)
(* wait_time + 5*(k-1), and with answers 404, 404, 200 there are exactly   *)
(* three fetches, the waits add up to the three escalating intervals and   *)
(* the run succeeds (when saving the file raises nothing).                 *)
C3_EscalatingWaits ==
    /\ \A k \in 1..Len(sleeps) : sleeps[k] = wait_time + 5 * (k - 1)
    /\ \A i \in Positions("get") : i > 1 /\ log[i - 1] = "sleep"
    /\ Calls("get") <= Calls("sleep")
    /\ Statuses = <<404, 404, 200>>
         => /\ Calls("get") = 3 /\ Calls("sleep") = 3
            /\ Sum(sleeps) = wait_time + (wait_time + 5) + (wait_time + 10)
            /\ pc \in {"mkdir", "open", "write", "done"}
            /\ (Returned /\ raised = None) => R.success

C3_Witness ==
    /\ Returned /\ R.success /\ Statuses = <<404, 404, 200>>
    /\ wait_time = 15 /\ sleeps = <<15, 20, 25>>

(* C4: no run fetches the polling URL more than 3 times; after three 404   *)
(* answers the result is success=false, its error names 3 attempts and the *)
(* last status 404, no file is written, text_result and audio_url are      *)
(* reported.                                                               *)
C4_PollingBounded ==
    /\ Calls("get") <= 3 /\ Len(polls) <= 3
    /\ (Returned /\ Statuses = <<404, 404, 404>>)
         => /\ ~R.success
            /\ R.error # None /\ R.error[1].msg = "Failed to download audio"
            /\ R.error[1].detail.attempts = 3
            /\ R.error[1].detail.last_status = 404
            /\ Calls("open") = 0 /\ Calls("write") = 0
            /\ files = filesBefore
            /\ text_result # None /\ R.text_result = text_result
            /\ audio_url # None /\ "audio_url" \in DOMAIN R
            /\ R.audio_url = audio_url

C4_Witness ==
    /\ Returned /\ Statuses = <<404, 404, 404>> /\ ~R.success
    /\ R.error[1].msg = "Failed to download audio"

(* C5: no exception escapes convert: whatever a stage raises, convert      *)
(* returns a result with success=false and a textual error.                *)
C5_NoExceptionEscapes ==
    /\ pc # "raised"
    /\ raised # None
         => /\ Returned /\ result # None
            /\ ~R.success
            /\ R.error # None /\ R.error[1].msg = "Unexpected error"
            /\ R.error[1].detail = raised[1].msg

C5_Witness ==
    /\ Returned /\ raised # None /\ raised[1].msg = "write"
    /\ ~R.success /\ R.error[1].msg = "Unexpected error"

(* C6 (as stated): for every submission response lacking an `async` field, *)
(* the result is success=false with error "No audio URL in TTS response",  *)
(* text_result is the analysis text and no poll fetch is made.             *)
C6_Original ==
    (Returned /\ ttsResp # None /\ "async" \notin ttsResp[1].body.keys)
        => /\ ~R.success
           /\ R.error # None /\ R.error[1].msg = "No audio URL in TTS response"
           /\ text_result # None /\ R.text_result = text_result
           /\ Calls("get") = 0

(* C6 (amended): for every HTTP 200 submission response whose body parses  *)
(* as a JSON object lacking an `async` field, the result is success=false  *)
(* with error "No audio URL in TTS response", text_result is the analysis  *)
(* text and no poll fetch is made.                                         *)
C6_NoAudioUrl ==
    (/\ Returned /\ ttsResp # None
     /\ ttsResp[1].status_code = 200
     /\ ttsResp[1].body.kind = "object"
     /\ "async" \notin ttsResp[1].body.keys)
        => /\ ~R.success
           /\ R.error # None /\ R.error[1].msg = "No audio URL in TTS response"
           /\ text_result # None /\ R.text_result = text_result
           /\ Calls("get") = 0 /\ Calls("sleep") = 0

C6_Witness ==
    /\ Returned /\ ttsResp # None
    /\ ttsResp[1].status_code = 200
    /\ ttsResp[1].body = ObjBody({"error", "message"}, FALSE, <<>>)
    /\ R.error[1].msg = "No audio URL in TTS response"

(* C7: when a poll answered HTTP 200 and saving raised nothing, convert    *)
(* returns success=true, error None, audio_path = the output path,         *)
(* text_result = the trimmed analysis text, and the file holds exactly the *)
(* body of the HTTP 200 answer.                                            *)
C7_SuccessPath ==
    (Returned /\ GotAudio /\ raised = None)
        => /\ R.success /\ R.error = None
           /\ R.audio_path = Some(output_wav_path)
           /\ visionResp # None /\ visionResp[1] # None
           /\ R.text_result = Some(Strip(visionResp[1][1]))
           /\ files[output_wav_path] = Some(Last(polls).content)
           /\ image_path \in ExistingImages
           /\ ttsResp[1].status_code = 200

C7_Witness ==
    /\ Returned /\ R.success
    /\ Len(polls) = 2 /\ polls[1].content # polls[2].content
    /\ visionResp[1][1] = <<" ", "e">> /\ R.text_result = Some(<<"e">>)

(* C8: a successful run overwrites the file at the output path: afterwards *)
(* it holds the bytes downloaded in this run, not the bytes of the run     *)
(* before and not both concatenated.                                       *)
C8_Overwrite ==
    (Returned /\ R.success)
        => LET new == Last(polls).content
               old == filesBefore[output_wav_path]
           IN  /\ files[output_wav_path] = Some(new)
               /\ (old # None /\ old[1] # <<>>)
                    => /\ files[output_wav_path] # Some(old[1] \o new)
                       /\ old[1] # new => files[output_wav_path] # old

C8_Witness ==
    /\ Returned /\ R.success
    /\ filesBefore[output_wav_path] = Some(<<82>>)
    /\ files[output_wav_path] = Some(<<73, 70>>)

(* C9: a run uses the most recently set values: the submission headers     *)
(* carry the voice last given to set_voice, voice_used of a success result *)
(* equals it, and the vision call gets the prompt last given to            *)
(* set_prompt.                                                             *)
C9_LatestConfigUsed ==
    /\ (postReq # None /\ lastSetVoice # None)
         => postReq[1].headers.voice = lastSetVoice[1]
    /\ (Returned /\ R.success /\ lastSetVoice # None)
         => R.voice_used = lastSetVoice[1]
    /\ (visionArgs # None /\ lastSetPrompt # None)
         => visionArgs[1].prompt = lastSetPrompt[1]

C9_Witness ==
    /\ Returned /\ R.success
    /\ lastSetVoice = Some("lannhi") /\ postReq[1].headers.voice = "lannhi"
    /\ lastSetPrompt = Some("custom") /\ visionArgs[1].prompt = "custom"

(* C10: with a directory component in the output path the directory is     *)
(* created before the file is opened and the file is then written; without *)
(* one, no directory-creation call is made and the file is still written.  *)
C10_DirectoryCreation ==
    /\ (HasDirComponent(output_wav_path) /\ Calls("open") > 0)
         => /\ \E i \in Positions("makedirs") :
                  \A j \in Positions("open") : i < j
            /\ dirname(output_wav_path) \in dirs
    /\ (pc # "idle" /\ ~HasDirComponent(output_wav_path))
         => Calls("makedirs") = 0 /\ dirs = dirsBefore
    /\ (Returned /\ GotAudio /\ raised = None)
         => /\ Calls("write") = 1
            /\ files[output_wav_path] # None

C10_Witness ==
    /\ Returned /\ R.success
    /\ output_wav_path = <<"d", "/", "o">>
    /\ <<"d">> \notin dirsBefore /\ <<"d">> \in dirs
    /\ files[output_wav_path] # None

C10_WitnessNoDir ==
    /\ Returned /\ R.success
    /\ output_wav_path = <<"o">> /\ Calls("makedirs") = 0

(* C11: when the submission response status is not 200, convert fails at   *)
(* once with the TTS-request-failed error carrying that status, keeps      *)
(* text_result, and does no JSON parsing, no sleep, no poll fetch and no   *)
(* file write.                                                             *)
C11_TtsRequestFailed ==
    (pc # "idle" /\ ttsResp # None /\ ttsResp[1].status_code # 200)
        => /\ Returned /\ ~R.success
           /\ R.error # None /\ R.error[1].msg = "TTS API request failed"
           /\ R.error[1].detail = ttsResp[1].status_code
           /\ text_result # None /\ R.text_result = text_result
           /\ Calls("json") = 0 /\ Calls("sleep") = 0 /\ Calls("get") = 0
           /\ Calls("makedirs") = 0 /\ Calls("open") = 0
           /\ Calls("write") = 0
           /\ files = filesBefore /\ dirs = dirsBefore
           /\ Last(log) = "post"

C11_Witness ==
    /\ Returned /\ ttsResp # None /\ ttsResp[1].status_code = 401
    /\ R.error[1].msg = "TTS API request failed" /\ R.error[1].detail = 401
    /\ R.text_result = Some(<<"e">>)

(* Stages of a run: 0 no run, 1 Start, 2 ImageLoaded, 3 Analyzed,          *)
(* 4 SynthesisSubmitted, 5 Polling, 6 AudioDownloaded, 7 Saved, 8 Failed,  *)
(* 9 an exception left convert.                                            *)
StageNo ==
    CASE pc = "idle" -> 0
      [] pc = "read" -> 1
      [] pc = "vision" -> 2
      [] pc = "post" -> 3
      [] pc = "sleep" /\ sleeps = <<>> -> 4
      [] pc = "sleep" /\ sleeps # <<>> -> 5
      [] pc = "get" -> 5
      [] pc \in {"mkdir", "open", "write"} -> 6
      [] pc = "done" /\ R.success -> 7
      [] pc = "done" /\ ~R.success -> 8
      [] OTHER -> 9

Rank(op) ==
    CASE op = "exists" -> 1
      [] op = "read" -> 2
      [] op = "vision" -> 3
      [] op = "post" -> 4
      [] op = "json" -> 5
      [] op \in {"sleep", "get"} -> 6
      [] op = "makedirs" -> 7
      [] op = "open" -> 8
      [] op = "write" -> 9

StageOrder ==
    /\ StageNo # 9
    \* the calls of a run happen in pipeline order, only polling repeats
    /\ \A i, j \in 1..Len(log) :
          i < j => \/ Rank(log[i]) < Rank(log[j])
                   \/ {log[i], log[j]} \subseteq {"sleep", "get"}
    \* no stage is skipped
    /\ Calls("vision") > 0 => Calls("read") = 1
    /\ Calls("post") > 0 => Calls("vision") = 1 /\ text_result # None
    /\ Calls("sleep") > 0 => Calls("post") = 1 /\ Calls("json") = 1
                             /\ audio_url # None
    /\ Calls("get") > 0 => Calls("sleep") > 0
    /\ StageNo \in {6, 7} => GotAudio
    /\ StageNo = 7 => Calls("open") = 1 /\ Calls("write") = 1
    /\ Calls("makedirs") + Calls("open") + Calls("write") > 0 => GotAudio

\* a failing step is possible at once, or after the one step that cannot
\* fail (a sleep of valid length, the skipped directory creation)
FailedReachable ==
    /\ StageNo \in {0, 1, 2, 3} => ENABLED (Next /\ StageNo' = 8)
    /\ pc \in {"get", "open", "write"} => ENABLED (Next /\ StageNo' = 8)
    /\ pc = "sleep" => ENABLED (Next /\ (StageNo' = 8 \/ pc' = "get"))
    /\ pc = "mkdir" => ENABLED (Next /\ (StageNo' = 8 \/ pc' = "open"))

StageStep ==
    \/ StageNo \in {0, 5, 6} /\ StageNo' = StageNo
    \/ StageNo \in 0..6 /\ StageNo' = StageNo + 1
    \/ StageNo \in 0..6 /\ StageNo' = 8
    \/ /\ StageNo \in {7, 8} /\ StageNo' = 0
       /\ files' = files /\ dirs' = dirs
       /\ log' = <<>> /\ sleeps' = <<>> /\ polls' = <<>>

(* C12: every run passes the stages Start, ImageLoaded, Analyzed,          *)
(* SynthesisSubmitted, Polling, AudioDownloaded, Saved in this order, none *)
(* skipped or revisited (Polling repeats its attempts); Saved is entered   *)
(* only from AudioDownloaded; a failing step is possible at every          *)
(* non-terminal stage; after Saved or Failed the run makes no further      *)
(* call, sleep or write.                                                   *)
C12_StagesInOrder ==
    /\ [](StageOrder /\ FailedReachable)
    /\ [][StageStep]_vars

C12_Witness ==
    /\ StageNo = 7
    /\ log = <<"exists", "read", "vision", "post", "json", "sleep", "get",
               "sleep", "get", "makedirs", "open", "write">>

(* C13: a poll answer whose status is neither 200 nor 404 ends the run at  *)
(* once, at any attempt, with the download-failed error reporting that     *)
(* status, without another sleep or fetch; a 404 is followed by another    *)
(* attempt only while retries remain.                                      *)
C13_UnexpectedPollStatus ==
    /\ \A i \in 1..Len(polls) :
          polls[i].status_code \notin {200, 404}
            => /\ i = Len(polls)
               /\ Returned /\ ~R.success
               /\ R.error # None
               /\ R.error[1].msg = "Failed to download audio"
               /\ R.error[1].detail.last_status = polls[i].status_code
               /\ Calls("get") = i /\ Calls("sleep") = i
               /\ Last(log) = "get"
               /\ files = filesBefore
    /\ \A i \in 1..Len(polls) :
          (polls[i].status_code = 404 /\ (i < Len(polls) \/ pc \in {"sleep", "get"}))
            => i < 3
    /\ (polls # <<>> /\ Last(polls).status_code = 404 /\ Len(polls) < 3)
          => pc \in {"sleep", "get"} \/ (Returned /\ raised # None)

C13_Witness ==
    /\ Returned /\ Statuses = <<404, 500>>
    /\ R.error[1].msg = "Failed to download audio"
    /\ R.error[1].detail.last_status = 500
    /\ Calls("get") = 2

AsyncPresent ==
    /\ pc # "idle" /\ ttsResp # None
    /\ ttsResp[1].status_code = 200
    /\ ttsResp[1].body.kind = "object"
    /\ "async" \in ttsResp[1].body.keys

BeginsWithHttp(body) ==
    /\ body.isStr
    /\ Len(body.async) >= 4
    /\ SubSeq(body.async, 1, 4) = <<"h", "t", "t", "p">>

InvalidUrlOutcome ==
    /\ Returned /\ ~R.success
    /\ R.error # None /\ R.error[1].msg = "Invalid audio URL format"
    /\ text_result # None /\ R.text_result = text_result
    /\ Calls("sleep") = 0 /\ Calls("get") = 0
    /\ Calls("open") = 0 /\ Calls("write") = 0
    /\ files = filesBefore

(* C14 (as stated): when the submission response is HTTP 200 and its       *)
(* `async` value does not begin with an HTTP scheme, convert fails with    *)
(* the invalid-URL-format error before any sleep or poll fetch, with       *)
(* text_result kept and no file written.                                   *)
C14_Original ==
    (AsyncPresent /\ ~BeginsWithHttp(ttsResp[1].body)) => InvalidUrlOutcome

(* C14 (amended): the same for an `async` value that is a string not       *)
(* beginning with "http".                                                  *)
C14_InvalidUrl ==
    (AsyncPresent /\ ttsResp[1].body.isStr
       /\ ~BeginsWithHttp(ttsResp[1].body))
        => InvalidUrlOutcome /\ R.error[1].detail = ttsResp[1].body.async

C14_Witness ==
    /\ Returned /\ AsyncPresent
    /\ ttsResp[1].body.isStr /\ ttsResp[1].body.async = FtpUrl
    /\ R.error[1].msg = "Invalid audio URL format"
    /\ R.text_result = Some(<<"e">>)

VisionFailed ==
    Calls("vision") > 0 /\ (visionResp = None \/ visionResp[1] = None)

(* C15: a run makes at most one vision call and at most one TTS            *)
(* submission; after a failed vision call there is no submission; the      *)
(* submission is made only after the vision call returned text, and it     *)
(* carries that text.                                                      *)
C15_SingleVisionAndSubmission ==
    /\ Calls("vision") <= 1 /\ Calls("post") <= 1
    /\ Calls("post") > 0
         => /\ visionResp # None /\ visionResp[1] # None
            /\ text_result = Some(Strip(visionResp[1][1]))
            /\ postReq # None /\ postReq[1].data = Utf8(text_result[1])
            /\ \A i \in Positions("vision"), j \in Positions("post") : i < j
    /\ VisionFailed
         => /\ Calls("post") = 0 /\ postReq = None /\ ttsResp = None
            /\ Returned /\ ~R.success
            /\ Last(log) = "vision"

C15_Witness ==
    /\ Returned /\ VisionFailed /\ raised # None /\ raised[1].msg = "vision"
    /\ Calls("vision") = 1 /\ Calls("post") = 0

C15_WitnessSubmitted ==
    /\ Returned /\ Calls("vision") = 1 /\ Calls("post") = 1
    /\ Calls("get") = 3

ConfigStep ==
    /\ model' = model /\ fpt_api_key' = fpt_api_key
    \* no step of a running convert touches the configuration
    /\ (pc # "idle" \/ pc' # "idle") => voice' = voice /\ prompt' = prompt
    \* voice changes only by set_voice, prompt only by set_prompt
    /\ voice' # voice
         => /\ pc = "idle" /\ pc' = "idle"
            /\ lastSetVoice' = Some(voice')
            /\ prompt' = prompt /\ lastSetPrompt' = lastSetPrompt
    /\ prompt' # prompt
         => /\ pc = "idle" /\ pc' = "idle"
            /\ lastSetPrompt' = Some(prompt')
            /\ voice' = voice /\ lastSetVoice' = lastSetVoice
    /\ lastSetVoice' # lastSetVoice => prompt' = prompt
    /\ lastSetPrompt' # lastSetPrompt => voice' = voice

(* C16: convert leaves voice, prompt, model and the TTS API key as they    *)
(* were, on success and on failure; voice changes only by set_voice and    *)
(* prompt only by set_prompt, and neither setter touches the other field.  *)
C16_ConfigUnchangedByConvert == [][ConfigStep]_vars

C16_Witness ==
    /\ Returned /\ R.success /\ Calls("write") = 1
    /\ voice = "lannhi" /\ prompt = "custom"
    /\ model = GeminiModel /\ fpt_api_key = "FPT_KEY"

(* C17: whenever convert returns the download-failed error, the number of  *)
(* attempts named in the error equals the number of poll fetches made in   *)
(* that run.                                                               *)
C17_AttemptsMatchFetches ==
    (Returned /\ R.error # None
       /\ R.error[1].msg = "Failed to download audio")
        => R.error[1].detail.attempts = Calls("get")

(* C18: the filesystem is touched only after a poll answered HTTP 200: in  *)
(* a run without such an answer no directory is created and every file     *)
(* keeps its previous content or stays absent; a run never touches a file  *)
(* other than the one at its output path.                                  *)
C18_FilesystemOnlyAfterAudio ==
    /\ (pc # "idle" /\ ~GotAudio)
         => /\ files = filesBefore /\ dirs = dirsBefore
            /\ Calls("makedirs") = 0 /\ Calls("open") = 0
            /\ Calls("write") = 0
    /\ pc # "idle"
         => \A p \in OutPaths \ {output_wav_path} : files[p] = filesBefore[p]

C18_Witness ==
    /\ Returned /\ ~R.success /\ ~GotAudio
    /\ R.error[1].msg = "Failed to download audio"
    /\ filesBefore[output_wav_path] = Some(<<82>>)
    /\ files[output_wav_path] = Some(<<82>>)

RunBounds ==
    /\ Calls("sleep") <= 3 /\ Calls("get") <= 3
    /\ Len(sleeps) <= 3 /\ Len(polls) <= 3
    /\ Sum(sleeps) <= 3 * wait_time + 15
    /\ (pc = "done") <=> (result # None)
    /\ pc \in {"idle", "read", "vision", "post", "sleep", "get", "mkdir",
               "open", "write", "done"}

(* C19: when every call returns or raises, every run of convert ends in    *)
(* exactly one result, after at most 3 sleeps and 3 poll fetches and at    *)
(* most 3*wait_time + 15 seconds of sleep.                                 *)
C19_RunTerminates ==
    /\ []RunBounds
    /\ [][result # None => result' = None]_vars
    /\ (pc # "idle") ~> (pc = "done" /\ result # None)

C19_Witness ==
    /\ Returned /\ result # None
    /\ Calls("sleep") = 3 /\ Calls("get") = 3
    /\ wait_time = 15 /\ Sum(sleeps) = 60

====
